---- MODULE Spec2Model ----
(***************************************************************************)
(* A model of the transport/dispatch layer of the server:                  *)
(*   - src/src/utils/shutdown_monitor.rs : signal monitor and idle monitor *)
(*   - src/src/main.rs                   : run_server, the middleware      *)
(*     stack, the route table and the handler adapter                      *)
(* Time is counted in seconds.  The server handle (axum_server::Handle) is *)
(* modelled by the three things the code uses of it: connection_count(),   *)
(* shutdown() and graceful_shutdown(Some(d)).                              *)
(***************************************************************************)
EXTENDS Integers, FiniteSets, Sequences, TLC

\* ---------------------------------------------------------------- bounds
MaxTime == 365
MaxConns == 2
MaxReqDur == 4
MaxReqs == 2

\* ------------------------------------------------------ program constants
GRACE_DURATION == 3
CHECK_INTERVAL == 30
IDLE_DURATION == 300
SIGINT == "Ctrl+C"
SIGTERM == "SIGTERM"

\* config.max_request_size (bytes), the limit given to DefaultBodyLimit::max
max_request_size == 1024

ConnIds == 1..MaxConns
ReqIds == 1..MaxReqs

VARIABLES
    now,            \* the clock (seconds since the monitor task was spawned)
    serverPc,       \* where run_server / the serving task is
    ready,          \* NotifyState::Ready has been sent
    bound,          \* the listener has been bound
    rotated,        \* services().globals.rotate.fire() has run
    stopping,       \* NotifyState::Stopping has been sent
    graceful,       \* the handle's graceful-shutdown notification (sticky)
    graceful_dur,   \* the handle's grace duration (-1: None)
    shutdownFlag,   \* the handle's shutdown notification (sticky)
    graceDeadline,  \* deadline of the serving task's grace timer (-1: none)
    conns,          \* the transport's connections
    monPc,          \* where the monitor task is
    last_activity,  \* check_idle's local
    count,          \* check_idle's local
    wake,           \* the instant check_idle's sleep ends
    \* history
    idleCalls,      \* number of handle.shutdown() calls made by check_idle
    gsCalls,        \* number of handle.graceful_shutdown() calls
    first,          \* which path called the handle first
    lastSeen,       \* instant of the last check that sampled count > 0
    openedSince,    \* a connection was open after the last reset
    drainStart,     \* instant grace_shutdown ran
    sigRem,         \* per connection: remaining time of its request at the signal
    outcome,        \* per connection: what became of that request
    \* the request pipeline
    inflight,       \* per request slot: the frame of the request whose
                    \* routed service is awaited (its request, and the
                    \* result that came back once next.run has returned)
    last            \* the exchange completed since the last arrival of a
                    \* request that awaits its handler

lifeVars == <<now, serverPc, ready, bound, rotated, stopping, graceful,
              graceful_dur, shutdownFlag, graceDeadline, conns, monPc,
              last_activity, count, wake, idleCalls, gsCalls, first,
              lastSeen, openedSince, drainStart, sigRem, outcome>>

pipeVars == <<inflight, last>>

vars == <<lifeVars, pipeVars>>

\* ------------------------------------------------------------ the handle
connection_count == Cardinality({c \in ConnIds : conns[c].st # "free"})

ProcessAlive == serverPc \notin {"exited", "failed", "panicked"}

FreeConn == [st |-> "free", rem |-> 0]

\* The phase of the spec's state machine, read off the serving task.
shutdown_phase ==
    IF serverPc \in {"returned", "stopped", "exited", "failed", "panicked"}
    THEN "Stopped"
    ELSE IF serverPc = "waiting" \/ graceful THEN "Draining"
    ELSE "Running"

PhaseRank(p) == CASE p = "Running" -> 0 [] p = "Draining" -> 1 [] OTHER -> 2

\* The monitor task ends (its select! completed, or the runtime dropped it):
\* check_idle's future and its locals are dropped with it.
MonitorEnds(pc) ==
    /\ monPc' = pc
    /\ last_activity' = 0
    /\ count' = 0
    /\ wake' = 0
    /\ lastSeen' = -1
    /\ openedSince' = FALSE

MonitorCancelled ==
    IF monPc \in {"done", "panicked", "unspawned"}
    THEN UNCHANGED <<monPc, last_activity, count, wake, lastSeen, openedSince>>
    ELSE MonitorEnds("cancelled")

\* ------------------------------------------------------------------ Init
LifeInit ==
    /\ now = 0
    /\ serverPc = "build"
    /\ ready = FALSE
    /\ bound = FALSE
    /\ rotated = FALSE
    /\ stopping = FALSE
    /\ graceful = FALSE
    /\ graceful_dur = -1
    /\ shutdownFlag = FALSE
    /\ graceDeadline = -1
    /\ conns = [c \in ConnIds |-> FreeConn]
    /\ monPc = "unspawned"
    /\ last_activity = 0
    /\ count = 0
    /\ wake = 0
    /\ idleCalls = 0
    /\ gsCalls = 0
    /\ first = "none"
    /\ lastSeen = -1
    /\ openedSince = FALSE
    /\ drainStart = -1
    /\ sigRem = [c \in ConnIds |-> -1]
    /\ outcome = [c \in ConnIds |-> "none"]


\* ------------------------------------------------------------ run_server
\* main.rs 234-238: with TLS configured the certificate and key are loaded;
\* a load error returns Err from run_server and main's unwrap ends the process.
load_tls ==
    /\ UNCHANGED pipeVars
    /\ serverPc = "start"
    /\ \E tls \in BOOLEAN, ok \in BOOLEAN :
         IF tls /\ ~ok
         THEN /\ serverPc' = "failed"
              /\ MonitorCancelled
         ELSE /\ serverPc' = "notify"
              /\ UNCHANGED <<monPc, last_activity, count, wake, lastSeen,
                             openedSince>>
    /\ UNCHANGED <<now, ready, bound, rotated, stopping, graceful,
                   graceful_dur, shutdownFlag, graceDeadline, conns,
                   idleCalls, gsCalls, first, drainStart, sigRem, outcome>>

\* main.rs 240-244 / 252-255: the server future is built (not yet polled) and
\* the readiness notification is sent.
notify_ready ==
    /\ UNCHANGED pipeVars
    /\ serverPc = "notify"
    /\ ready' = TRUE
    /\ serverPc' = "bind"
    /\ UNCHANGED <<now, bound, rotated, stopping, graceful, graceful_dur,
                   shutdownFlag, graceDeadline, conns, monPc, last_activity,
                   count, wake, idleCalls, gsCalls, first, lastSeen,
                   openedSince, drainStart, sigRem, outcome>>

\* main.rs 247 / 257: server.await binds the listener; an unbindable address
\* returns Err.
bind_listener ==
    /\ UNCHANGED pipeVars
    /\ serverPc = "bind"
    /\ \E ok \in BOOLEAN :
         IF ok
         THEN /\ serverPc' = "accepting"
              /\ bound' = TRUE
              /\ UNCHANGED <<monPc, last_activity, count, wake, lastSeen,
                             openedSince>>
         ELSE /\ serverPc' = "failed"
              /\ bound' = FALSE
              /\ MonitorCancelled
    /\ UNCHANGED <<now, ready, rotated, stopping, graceful, graceful_dur,
                   shutdownFlag, graceDeadline, conns, idleCalls, gsCalls,
                   first, drainStart, sigRem, outcome>>

\* Mutant of OpenConn: connections are still accepted while the serving task
\* waits for the connections to end.
OpenConn_draining(c) ==
    /\ UNCHANGED pipeVars
    /\ serverPc \in {"accepting", "waiting"}
    /\ ~shutdownFlag
    /\ conns[c].st = "free"
    /\ conns' = [conns EXCEPT ![c] = [st |-> "idle", rem |-> 0]]
    /\ openedSince' = TRUE
    /\ UNCHANGED <<now, serverPc, ready, bound, rotated, stopping,
                   graceful, graceful_dur, shutdownFlag, graceDeadline, monPc,
                   last_activity, count, wake, idleCalls, gsCalls, first,
                   lastSeen, drainStart, sigRem, outcome>>

\* server.await, accept loop: a connection is accepted.
OpenConn(c) ==
    /\ UNCHANGED pipeVars
    /\ serverPc = "accepting"
    /\ ~shutdownFlag
    /\ conns[c].st = "free"
    /\ conns' = [conns EXCEPT ![c] = [st |-> "idle", rem |-> 0]]
    /\ openedSince' = TRUE
    /\ UNCHANGED <<now, serverPc, ready, bound, rotated, stopping,
                   graceful, graceful_dur, shutdownFlag, graceDeadline, monPc,
                   last_activity, count, wake, idleCalls, gsCalls, first,
                   lastSeen, drainStart, sigRem, outcome>>

\* A request of duration d starts on an open connection.
StartRequest(c, d) ==
    /\ UNCHANGED pipeVars
    /\ serverPc = "accepting"
    /\ ~graceful
    /\ ~shutdownFlag
    /\ conns[c].st = "idle"
    /\ conns' = [conns EXCEPT ![c] = [st |-> "busy", rem |-> d]]
    /\ UNCHANGED <<now, serverPc, ready, bound, rotated, stopping,
                   graceful, graceful_dur, shutdownFlag, graceDeadline, monPc,
                   last_activity, count, wake, idleCalls, gsCalls, first,
                   lastSeen, openedSince, drainStart, sigRem, outcome>>

\* The request in flight on c completes; under graceful shutdown the
\* connection is closed after it, otherwise it is kept alive.
FinishRequest(c) ==
    /\ UNCHANGED pipeVars
    /\ ProcessAlive
    /\ conns[c].st = "busy"
    /\ conns[c].rem = 0
    /\ conns' = [conns EXCEPT ![c] =
                   IF graceful THEN FreeConn ELSE [st |-> "idle", rem |-> 0]]
    /\ outcome' = [outcome EXCEPT ![c] =
                   IF sigRem[c] >= 0 /\ outcome[c] = "none"
                   THEN "completed" ELSE outcome[c]]
    /\ UNCHANGED <<now, serverPc, ready, bound, rotated, stopping,
                   graceful, graceful_dur, shutdownFlag, graceDeadline, monPc,
                   last_activity, count, wake, idleCalls, gsCalls, first,
                   lastSeen, openedSince, drainStart, sigRem>>

\* An idle connection is closed (by the client, or by graceful shutdown).
CloseConn(c) ==
    /\ UNCHANGED pipeVars
    /\ ProcessAlive
    /\ conns[c].st = "idle"
    /\ conns' = [conns EXCEPT ![c] = FreeConn]
    /\ UNCHANGED <<now, serverPc, ready, bound, rotated, stopping,
                   graceful, graceful_dur, shutdownFlag, graceDeadline, monPc,
                   last_activity, count, wake, idleCalls, gsCalls, first,
                   lastSeen, openedSince, drainStart, sigRem, outcome>>

\* The handle's shutdown notification ends a connection task at once.
KillConn(c) ==
    /\ UNCHANGED pipeVars
    /\ ProcessAlive
    /\ shutdownFlag
    /\ conns[c].st # "free"
    /\ conns' = [conns EXCEPT ![c] = FreeConn]
    /\ outcome' = [outcome EXCEPT ![c] =
                   IF sigRem[c] >= 0 /\ outcome[c] = "none" /\ conns[c].st = "busy"
                   THEN "killed" ELSE outcome[c]]
    /\ UNCHANGED <<now, serverPc, ready, bound, rotated, stopping,
                   graceful, graceful_dur, shutdownFlag, graceDeadline, monPc,
                   last_activity, count, wake, idleCalls, gsCalls, first,
                   lastSeen, openedSince, drainStart, sigRem>>

\* server.await: the handle's shutdown notification makes serve return.
serve_shutdown ==
    /\ UNCHANGED pipeVars
    /\ serverPc = "accepting"
    /\ shutdownFlag
    /\ serverPc' = "returned"
    /\ UNCHANGED <<now, ready, bound, rotated, stopping, graceful,
                   graceful_dur, shutdownFlag, graceDeadline, conns, monPc,
                   last_activity, count, wake, idleCalls, gsCalls, first,
                   lastSeen, openedSince, drainStart, sigRem, outcome>>

\* server.await: the graceful notification ends the accept loop; the listener
\* is dropped and the serving task waits for the connections to end, for at
\* most the handle's grace duration.
accept_loop_exit ==
    /\ UNCHANGED pipeVars
    /\ serverPc = "accepting"
    /\ graceful
    /\ ~shutdownFlag
    /\ IF connection_count = 0
       THEN /\ serverPc' = "returned"
            /\ graceDeadline' = graceDeadline
       ELSE /\ serverPc' = "waiting"
            /\ graceDeadline' = now + graceful_dur
    /\ UNCHANGED <<now, ready, bound, rotated, stopping, graceful,
                   graceful_dur, shutdownFlag, conns, monPc, last_activity,
                   count, wake, idleCalls, gsCalls, first, lastSeen,
                   openedSince, drainStart, sigRem, outcome>>

\* Mutant of conns_end: the end of the drain is taken for a return to service.
conns_end_resumes ==
    /\ UNCHANGED pipeVars
    /\ serverPc = "waiting"
    /\ connection_count = 0
    /\ serverPc' = "accepting"
    /\ graceful' = FALSE
    /\ UNCHANGED <<now, ready, bound, rotated, stopping, graceful_dur,
                   shutdownFlag, graceDeadline, conns, monPc, last_activity,
                   count, wake, idleCalls, gsCalls, first, lastSeen,
                   openedSince, drainStart, sigRem, outcome>>

\* server.await: the last connection ended within the grace period.
conns_end ==
    /\ UNCHANGED pipeVars
    /\ serverPc = "waiting"
    /\ connection_count = 0
    /\ serverPc' = "returned"
    /\ UNCHANGED <<now, ready, bound, rotated, stopping, graceful,
                   graceful_dur, shutdownFlag, graceDeadline, conns, monPc,
                   last_activity, count, wake, idleCalls, gsCalls, first,
                   lastSeen, openedSince, drainStart, sigRem, outcome>>

\* Mutant of grace_timeout: the grace timer is not awaited.
grace_timeout_early ==
    /\ UNCHANGED pipeVars
    /\ serverPc = "waiting"
    /\ shutdownFlag' = TRUE
    /\ serverPc' = "returned"
    /\ UNCHANGED <<now, ready, bound, rotated, stopping, graceful,
                   graceful_dur, graceDeadline, conns, monPc, last_activity,
                   count, wake, idleCalls, gsCalls, first, lastSeen,
                   openedSince, drainStart, sigRem, outcome>>

\* server.await: the grace period elapsed; the handle is shut down.
grace_timeout ==
    /\ UNCHANGED pipeVars
    /\ serverPc = "waiting"
    /\ now >= graceDeadline
    /\ shutdownFlag' = TRUE
    /\ serverPc' = "returned"
    /\ UNCHANGED <<now, ready, bound, rotated, stopping, graceful,
                   graceful_dur, graceDeadline, conns, monPc, last_activity,
                   count, wake, idleCalls, gsCalls, first, lastSeen,
                   openedSince, drainStart, sigRem, outcome>>

\* main.rs 261-268: after serve returned, the rotate event is fired and the
\* stopping notification is sent.
on_shutdown ==
    /\ UNCHANGED pipeVars
    /\ serverPc = "returned"
    /\ rotated' = TRUE
    /\ stopping' = TRUE
    /\ serverPc' = "stopped"
    /\ UNCHANGED <<now, ready, bound, graceful, graceful_dur,
                   shutdownFlag, graceDeadline, conns, monPc, last_activity,
                   count, wake, idleCalls, gsCalls, first, lastSeen,
                   openedSince, drainStart, sigRem, outcome>>

\* main.rs 160-166: run_server returned Ok, main returns, the runtime is
\* dropped: every task still alive is cancelled.
process_exit ==
    /\ UNCHANGED pipeVars
    /\ serverPc = "stopped"
    /\ serverPc' = "exited"
    /\ MonitorCancelled
    /\ conns' = [c \in ConnIds |-> FreeConn]
    /\ outcome' = [c \in ConnIds |->
                   IF sigRem[c] >= 0 /\ outcome[c] = "none" /\ conns[c].st = "busy"
                   THEN "killed" ELSE outcome[c]]
    /\ UNCHANGED <<now, ready, bound, rotated, stopping, graceful,
                   graceful_dur, shutdownFlag, graceDeadline, idleCalls,
                   gsCalls, first, drainStart, sigRem>>

\* ------------------------------------------------------ shutdown_monitor
\* shutdown_monitor.rs 12-35, 46: the first poll of the spawned monitor task.
\* Its select! polls ctrl_c() and terminate(), which install the two signal
\* handlers, and check_idle(), which takes last_activity = Instant::now().
\* A failed installation panics (expect) inside the spawned task: with the
\* unwinding panic strategy only that task ends, with the aborting one the
\* process does.
monitor_start ==
    /\ UNCHANGED pipeVars
    /\ ProcessAlive
    /\ monPc = "spawned"
    /\ \E installed \in BOOLEAN, abort \in BOOLEAN :
         IF installed
         THEN /\ monPc' = "loop"
              /\ last_activity' = now
              /\ wake' = now
              /\ UNCHANGED <<serverPc, count, lastSeen, openedSince>>
         ELSE /\ MonitorEnds("panicked")
              /\ serverPc' = IF abort THEN "failed" ELSE serverPc
    /\ UNCHANGED <<now, ready, bound, rotated, stopping, graceful,
                   graceful_dur, shutdownFlag, graceDeadline, conns,
                   idleCalls, gsCalls, first, drainStart, sigRem, outcome>>

\* shutdown_monitor.rs 37-40, mutated: the monitor keeps waiting for signals
\* and checking for idleness after the call.
grace_shutdown_monitor_lives(signal) ==
    /\ signal \in {SIGINT, SIGTERM}
    /\ graceful_dur' = GRACE_DURATION
    /\ graceful' = TRUE
    /\ gsCalls' = gsCalls + 1
    /\ first' = IF first = "none" THEN "signal" ELSE first
    /\ drainStart' = now
    /\ sigRem' = [c \in ConnIds |->
                   IF conns[c].st = "busy" THEN conns[c].rem ELSE -1]
    /\ UNCHANGED <<monPc, last_activity, count, wake, lastSeen, openedSince>>

\* shutdown_monitor.rs 37-40; the select! arm that called it completes monitor.
grace_shutdown(signal) ==
    /\ signal \in {SIGINT, SIGTERM}
    /\ graceful_dur' = GRACE_DURATION
    /\ graceful' = TRUE
    /\ gsCalls' = gsCalls + 1
    /\ first' = IF first = "none" THEN "signal" ELSE first
    /\ drainStart' = now
    /\ sigRem' = [c \in ConnIds |->
                   IF conns[c].st = "busy" THEN conns[c].rem ELSE -1]
    /\ MonitorEnds("done")

\* shutdown_monitor.rs 14: the Ctrl+C arm of monitor's select!.
ctrl_c ==
    /\ UNCHANGED pipeVars
    /\ ProcessAlive
    /\ monPc = "loop"
    /\ grace_shutdown(SIGINT)
    /\ UNCHANGED <<now, serverPc, ready, bound, rotated, stopping,
                   shutdownFlag, graceDeadline, conns, idleCalls, outcome>>

\* shutdown_monitor.rs 15: the SIGTERM arm of monitor's select!.
terminate ==
    /\ UNCHANGED pipeVars
    /\ ProcessAlive
    /\ monPc = "loop"
    /\ grace_shutdown(SIGTERM)
    /\ UNCHANGED <<now, serverPc, ready, bound, rotated, stopping,
                   shutdownFlag, graceDeadline, conns, idleCalls, outcome>>

\* shutdown_monitor.rs 60: a sleep never completes before its deadline and, on
\* the runtime's clock, completes a little after it.  The lateness of one
\* sleep of check_idle, in milliseconds (the resolution of tokio's timer).
SLEEP_LATENESS == 1

\* Duration::from_secs, in milliseconds.
Duration_from_secs(secs) == secs * 1000

\* Instant::elapsed for an instant taken by check_idle, in milliseconds: the
\* whole seconds of the clock plus the lateness of each sleep of check_idle
\* that has completed since the instant was taken.
elapsed(instant) ==
    Duration_from_secs(now - instant)
        + ((now - instant) \div CHECK_INTERVAL) * SLEEP_LATENESS

\* shutdown_monitor.rs 48: check_idle samples the connection count.
check_idle_sample ==
    /\ UNCHANGED pipeVars
    /\ ProcessAlive
    /\ monPc = "loop"
    /\ now >= wake
    /\ count' = connection_count
    /\ monPc' = "sampled"
    /\ UNCHANGED <<now, serverPc, ready, bound, rotated, stopping,
                   graceful, graceful_dur, shutdownFlag, graceDeadline, conns,
                   last_activity, wake, idleCalls, gsCalls, first,
                   lastSeen, openedSince, drainStart, sigRem, outcome>>

\* Mutant of check_idle: shutdown is called two check intervals late.
check_idle_late ==
    /\ UNCHANGED pipeVars
    /\ ProcessAlive
    /\ monPc = "sampled"
    /\ IF count > 0
       THEN /\ last_activity' = now
            /\ lastSeen' = now
            /\ openedSince' = FALSE
            /\ UNCHANGED <<shutdownFlag, idleCalls, first>>
       ELSE /\ IF LET idle_time == elapsed(last_activity)
                  IN  idle_time > Duration_from_secs(IDLE_DURATION
                                                       + 2 * CHECK_INTERVAL)
               THEN /\ shutdownFlag' = TRUE
                    /\ idleCalls' = idleCalls + 1
                    /\ first' = IF first = "none" THEN "idle" ELSE first
               ELSE UNCHANGED <<shutdownFlag, idleCalls, first>>
            /\ UNCHANGED <<last_activity, lastSeen, openedSince>>
    /\ wake' = now + CHECK_INTERVAL
    /\ count' = 0
    /\ monPc' = "loop"
    /\ UNCHANGED <<now, serverPc, ready, bound, rotated, stopping,
                   graceful, graceful_dur, graceDeadline, conns,
                   gsCalls, drainStart, sigRem, outcome>>

\* Mutant of check_idle: shutdown is called one check interval before the
\* idle time exceeds the threshold.
check_idle_early ==
    /\ UNCHANGED pipeVars
    /\ ProcessAlive
    /\ monPc = "sampled"
    /\ IF count > 0
       THEN /\ last_activity' = now
            /\ lastSeen' = now
            /\ openedSince' = FALSE
            /\ UNCHANGED <<shutdownFlag, idleCalls, first>>
       ELSE /\ IF LET idle_time == elapsed(last_activity)
                  IN  idle_time > Duration_from_secs(IDLE_DURATION
                                                       - CHECK_INTERVAL)
               THEN /\ shutdownFlag' = TRUE
                    /\ idleCalls' = idleCalls + 1
                    /\ first' = IF first = "none" THEN "idle" ELSE first
               ELSE UNCHANGED <<shutdownFlag, idleCalls, first>>
            /\ UNCHANGED <<last_activity, lastSeen, openedSince>>
    /\ wake' = now + CHECK_INTERVAL
    /\ count' = 0
    /\ monPc' = "loop"
    /\ UNCHANGED <<now, serverPc, ready, bound, rotated, stopping,
                   graceful, graceful_dur, graceDeadline, conns,
                   gsCalls, drainStart, sigRem, outcome>>

\* Mutant of check_idle: an observed connection does not reset last_activity.
check_idle_no_reset ==
    /\ UNCHANGED pipeVars
    /\ ProcessAlive
    /\ monPc = "sampled"
    /\ IF count > 0
       THEN /\ lastSeen' = now
            /\ openedSince' = FALSE
            /\ UNCHANGED <<last_activity, shutdownFlag, idleCalls, first>>
       ELSE /\ IF LET idle_time == elapsed(last_activity)
                  IN  idle_time > Duration_from_secs(IDLE_DURATION)
               THEN /\ shutdownFlag' = TRUE
                    /\ idleCalls' = idleCalls + 1
                    /\ first' = IF first = "none" THEN "idle" ELSE first
               ELSE UNCHANGED <<shutdownFlag, idleCalls, first>>
            /\ UNCHANGED <<last_activity, lastSeen, openedSince>>
    /\ wake' = now + CHECK_INTERVAL
    /\ count' = 0
    /\ monPc' = "loop"
    /\ UNCHANGED <<now, serverPc, ready, bound, rotated, stopping,
                   graceful, graceful_dur, graceDeadline, conns,
                   gsCalls, drainStart, sigRem, outcome>>

\* shutdown_monitor.rs 49-60: the rest of one iteration of check_idle's loop.
check_idle ==
    /\ UNCHANGED pipeVars
    /\ ProcessAlive
    /\ monPc = "sampled"
    /\ IF count > 0
       THEN /\ last_activity' = now
            /\ lastSeen' = now
            /\ openedSince' = FALSE
            /\ UNCHANGED <<shutdownFlag, idleCalls, first>>
       ELSE /\ IF LET idle_time == elapsed(last_activity)
                  IN  idle_time > Duration_from_secs(IDLE_DURATION)
               THEN /\ shutdownFlag' = TRUE
                    /\ idleCalls' = idleCalls + 1
                    /\ first' = IF first = "none" THEN "idle" ELSE first
               ELSE UNCHANGED <<shutdownFlag, idleCalls, first>>
            /\ UNCHANGED <<last_activity, lastSeen, openedSince>>
    /\ wake' = now + CHECK_INTERVAL
    /\ count' = 0
    /\ monPc' = "loop"
    /\ UNCHANGED <<now, serverPc, ready, bound, rotated, stopping,
                   graceful, graceful_dur, graceDeadline, conns,
                   gsCalls, drainStart, sigRem, outcome>>

\* ------------------------------------------------------------------ time
\* One second passes.  Code that is ready to run runs first.
Tick ==
    /\ UNCHANGED pipeVars
    /\ ProcessAlive
    /\ now < MaxTime
    /\ serverPc \notin {"build", "start", "notify", "bind"}
    /\ monPc \notin {"spawned", "sampled"}
    /\ monPc = "loop" => now < wake
    /\ serverPc \in {"returned", "stopped"} => monPc = "loop"
    /\ ~(serverPc = "accepting" /\ (graceful \/ shutdownFlag))
    /\ ~(serverPc = "waiting" /\ (connection_count = 0 \/ now >= graceDeadline))
    /\ \A c \in ConnIds :
         /\ conns[c].st = "busy" => conns[c].rem > 0
         /\ ~(graceful /\ conns[c].st = "idle")
         /\ ~(shutdownFlag /\ conns[c].st # "free")
    /\ now' = now + 1
    /\ conns' = [c \in ConnIds |->
                   IF conns[c].st = "busy"
                   THEN [conns[c] EXCEPT !.rem = conns[c].rem - 1]
                   ELSE conns[c]]
    /\ openedSince' = (openedSince \/ connection_count > 0)
    /\ UNCHANGED <<serverPc, ready, bound, rotated, stopping, graceful,
                   graceful_dur, shutdownFlag, graceDeadline, monPc,
                   last_activity, count, wake, idleCalls, gsCalls, first,
                   lastSeen, drainStart, sigRem, outcome>>

\* ======================================================== the route table
\* The request methods and paths drawn for the pipeline.
Methods == {"GET", "POST", "PUT", "OPTIONS", "HEAD"}
LoginPaths == <<"/_matrix/client/r0/login", "/_matrix/client/v3/login">>
InitialSyncR0 == "/_matrix/client/r0/rooms/:room_id/initialSync"
InitialSyncV3 == "/_matrix/client/v3/rooms/:room_id/initialSync"
UnknownPath == "/_matrix/unknown"
RequestPaths == {LoginPaths[1], LoginPaths[2], InitialSyncV3, UnknownPath}
BodySizes == {max_request_size, 2 * max_request_size}

Requests == [method : Methods, path : RequestPaths, len : BodySizes]

NoReq == [method |-> "none", path |-> "none", len |-> 0]

\* The method values an endpoint's metadata may carry: the eight the code
\* names and two it does not.
SupportedMethods ==
    {"DELETE", "GET", "HEAD", "OPTIONS", "PATCH", "POST", "PUT", "TRACE"}
HttpMethods == SupportedMethods \cup {"CONNECT", "PROPFIND"}

\* main.rs 544-556, mutated: an unnamed method gets the GET filter.
method_to_filter_no_panic(method) ==
    CASE method = "DELETE" -> "MethodFilter::DELETE"
      [] method = "GET" -> "MethodFilter::GET"
      [] method = "HEAD" -> "MethodFilter::HEAD"
      [] method = "OPTIONS" -> "MethodFilter::OPTIONS"
      [] method = "PATCH" -> "MethodFilter::PATCH"
      [] method = "POST" -> "MethodFilter::POST"
      [] method = "PUT" -> "MethodFilter::PUT"
      [] method = "TRACE" -> "MethodFilter::TRACE"
      [] OTHER -> "MethodFilter::GET"

\* main.rs 544-556
method_to_filter(method) ==
    CASE method = "DELETE" -> "MethodFilter::DELETE"
      [] method = "GET" -> "MethodFilter::GET"
      [] method = "HEAD" -> "MethodFilter::HEAD"
      [] method = "OPTIONS" -> "MethodFilter::OPTIONS"
      [] method = "PATCH" -> "MethodFilter::PATCH"
      [] method = "POST" -> "MethodFilter::POST"
      [] method = "PUT" -> "MethodFilter::PUT"
      [] method = "TRACE" -> "MethodFilter::TRACE"
      [] OTHER -> "panic"

\* The endpoints registered with ruma_route that the model keeps
\* (main.rs 300-301): their METADATA (method, path history) and handler.
Endpoints ==
    << [handler |-> "get_login_types_route", method |-> "GET",
        history |-> LoginPaths],
       [handler |-> "login_route", method |-> "POST",
        history |-> LoginPaths] >>

BusinessHandlers == {Endpoints[i].handler : i \in 1..Len(Endpoints)}

\* Router::new()
Router_new == [reg |-> {}, fallback |-> "none"]

\* Router::route(path, on(filter, handler)): one route registration.
route(router, path, filter, handler) ==
    [router EXCEPT !.reg =
        @ \cup {[path |-> path, filter |-> filter, handler |-> handler]}]

\* main.rs 520-526, mutated: only the first path of the history is registered.
add_paths_head_only(router, paths, method_filter, handler) ==
    IF paths = <<>> THEN router
    ELSE route(router, Head(paths), method_filter, handler)

\* main.rs 520-526: the loop of add_to_router over meta.history.all_paths().
RECURSIVE add_paths(_, _, _, _)
add_paths(router, paths, method_filter, handler) ==
    IF paths = <<>> THEN router
    ELSE add_paths(route(router, Head(paths), method_filter, handler),
                   Tail(paths), method_filter, handler)

\* main.rs 516-529
add_to_router(ep, router) ==
    LET method_filter == method_to_filter(ep.method)
    IN  add_paths(router, ep.history, method_filter, ep.handler)

\* main.rs 486-493, applied to the endpoints in source order.
RECURSIVE ruma_route(_, _)
ruma_route(router, eps) ==
    IF eps = <<>> THEN router
    ELSE ruma_route(add_to_router(Head(eps), router), Tail(eps))

\* main.rs 295-465
routes ==
    LET r1 == ruma_route(Router_new, Endpoints)
        r2 == route(r1, InitialSyncR0, "MethodFilter::GET", "initial_sync")
        r3 == route(r2, InitialSyncV3, "MethodFilter::GET", "initial_sync")
    IN  [r3 EXCEPT !.fallback = "not_found"]

\* main.rs 228-231: run_server builds the route table (routes().layer(..)),
\* creates the handle and spawns the monitor.  Building applies
\* method_to_filter to the method of each registered endpoint's metadata
\* (drawn here from HttpMethods); its panic unwinds run_server and main, and
\* the process ends before the monitor is spawned or anything is bound.
build_routes ==
    /\ UNCHANGED pipeVars
    /\ serverPc = "build"
    /\ \E m \in HttpMethods :
         IF method_to_filter(m) = "panic"
         THEN /\ serverPc' = "panicked"
              /\ monPc' = monPc
         ELSE /\ serverPc' = "start"
              /\ monPc' = "spawned"
    /\ UNCHANGED <<now, ready, bound, rotated, stopping, graceful,
                   graceful_dur, shutdownFlag, graceDeadline, conns,
                   last_activity, count, wake, idleCalls, gsCalls, first,
                   lastSeen, openedSince, drainStart, sigRem, outcome>>

\* The router's path match (what MatchedPath reports to the tracing span).
MatchedPath(router, path) == \E r \in router.reg : r.path = path

\* The method filters that serve a request method: a HEAD request is served
\* by a HEAD registration and otherwise by a GET registration.
FiltersFor(method) ==
    IF method = "HEAD" THEN {"MethodFilter::HEAD", "MethodFilter::GET"}
    ELSE {method_to_filter(method)}

MethodRegistered(router, path, method) ==
    \E r \in router.reg : r.path = path /\ r.filter \in FiltersFor(method)

\* The service the router hands a request to.
Endpoint(router, req) ==
    IF ~MatchedPath(router, req.path) THEN router.fallback
    ELSE IF ~MethodRegistered(router, req.path, req.method)
         THEN "method_not_allowed"
    ELSE (CHOOSE r \in router.reg :
            r.path = req.path /\ r.filter \in FiltersFor(req.method)).handler

\* ============================================================= responses
\* The status the error serializer gives an error kind.
ErrorStatus(kind) ==
    CASE kind = "GuestAccessForbidden" -> 403
      [] OTHER -> 400

\* Error::BadRequest(kind, message) serialized into a response.
Error_BadRequest(kind, message) ==
    [status |-> ErrorStatus(kind), kind |-> kind, msg |-> message,
     cors |-> FALSE, enc |-> FALSE]

\* RumaResponse(UiaaResponse::MatrixError(e)).into_response()
RumaResponse(e) ==
    [status |-> e.status_code, kind |-> e.kind, msg |-> e.message,
     cors |-> FALSE, enc |-> FALSE]

\* The router's generic answer to an unmatched method: a 405 with no body.
MethodNotAllowed ==
    [status |-> 405, kind |-> "empty", msg |-> "", cors |-> FALSE,
     enc |-> FALSE]

\* The CORS stage's own answer to an OPTIONS request (a preflight response).
PreflightResponse ==
    [status |-> 200, kind |-> "empty", msg |-> "", cors |-> TRUE,
     enc |-> FALSE]

OkResponse ==
    [status |-> 200, kind |-> "ok", msg |-> "", cors |-> FALSE, enc |-> FALSE]

\* What a business handler may return: Ok, or an error E with its status.
HandlerErrors ==
    { [status_code |-> 403, kind |-> "Forbidden", message |-> "Forbidden"],
      [status_code |-> 405, kind |-> "Unknown", message |-> "remote error"],
      [status_code |-> 500, kind |-> "Unknown", message |-> "internal"] }

NoResult == [status_code |-> 0, kind |-> "none", message |-> ""]
OkResult == [status_code |-> 200, kind |-> "ok", message |-> ""]
HandlerResults == {OkResult} \cup HandlerErrors

\* The client error with which the extraction of a handler's arguments fails.
ExtractionRejection ==
    [status_code |-> 400, kind |-> "BadRequest", message |-> "extraction failed"]

\* What comes back from an adapted service: the rejection of its extractors,
\* or the result of the handler they let run.  Which of them is an input: the
\* extractors of Ruma<Req> read parts of the request that are not modelled.
AdapterResults == HandlerResults \cup {ExtractionRejection}

\* The extractors yielded the handler's arguments.
Extracted(res) == res # ExtractionRejection

\* main.rs 467-470, mutated: the fallback answers with another error kind.
not_found_wrong_kind == Error_BadRequest("NotFound", "Not found")

\* main.rs 467-470
not_found == Error_BadRequest("Unrecognized", "Unrecognized request")

\* main.rs 472-477
initial_sync ==
    Error_BadRequest("GuestAccessForbidden", "Guest access not implemented")

\* main.rs 523-525: the adapted closure, called with its extracted arguments:
\* it calls the handler once and awaits it.
ruma_handler(req) ==
    [await |-> TRUE, calls |-> 1, parsed |-> TRUE, resp |-> OkResponse]

\* main.rs 524: handler(..).await.map(RumaResponse), and E's into_response
\* (the extractors' rejection is serialized as an error is).
HandlerResponse(res) ==
    IF res = OkResult THEN OkResponse ELSE RumaResponse(res)

\* The routed service called with a request.
RouteCall(req) ==
    LET ep == Endpoint(routes, req)
    IN  CASE ep = "not_found" ->
               [await |-> FALSE, calls |-> 1, parsed |-> FALSE,
                resp |-> not_found]
          [] ep = "initial_sync" ->
               [await |-> FALSE, calls |-> 1, parsed |-> FALSE,
                resp |-> initial_sync]
          [] ep = "method_not_allowed" ->
               [await |-> FALSE, calls |-> 0, parsed |-> FALSE,
                resp |-> MethodNotAllowed]
          [] OTHER -> ruma_handler(req)

\* ========================================================= the middlewares
\* main.rs 177-225, mutated: CORS is added before method-correction.
middlewares_swapped ==
    << "sensitive_headers", "trace", "compression", "cors",
       "unrecognized_method", "body_limit" >>

\* main.rs 177-225: the ServiceBuilder's layers, first added outermost.
middlewares ==
    << "sensitive_headers", "trace", "compression", "unrecognized_method",
       "cors", "body_limit" >>

\* main.rs 271-293, mutated: every inner client or server error is rewritten.
unrecognized_method_any_error(inner) ==
    IF inner.status >= 400
    THEN RumaResponse([kind |-> "Unrecognized",
                       message |-> "M_UNRECOGNIZED: Unrecognized request",
                       status_code |-> 405])
    ELSE inner

\* main.rs 271-293, mutated: the inner response is returned as it is.
unrecognized_method_passthrough(inner) == inner

\* main.rs 271-293
unrecognized_method(inner) ==
    IF inner.status = 405
    THEN RumaResponse([kind |-> "Unrecognized",
                       message |-> "M_UNRECOGNIZED: Unrecognized request",
                       status_code |-> 405])
    ELSE inner

\* The request side: the layers a request enters, outermost first.  The CORS
\* layer answers an OPTIONS request itself; every other request reaches the
\* routed service.  stop is the index of the layer that answered (0: none).
RECURSIVE Descend(_, _, _)
Descend(i, req, down) ==
    IF i > Len(middlewares) THEN [down |-> Append(down, "route"), stop |-> 0]
    ELSE IF middlewares[i] = "cors" /\ req.method = "OPTIONS"
         THEN [down |-> Append(down, "cors"), stop |-> i]
    ELSE Descend(i + 1, req, Append(down, middlewares[i]))

\* The response side of one layer; gzip: the request accepts a compressed
\* response.
LayerResponse(layer, gzip, x) ==
    CASE layer = "unrecognized_method" ->
           [resp |-> unrecognized_method(x.resp),
            up |-> Append(x.up, layer),
            inner |-> x.resp.status]
      [] layer = "cors" ->
           [resp |-> [x.resp EXCEPT !.cors = TRUE],
            up |-> Append(x.up, layer),
            inner |-> x.inner]
      [] layer = "compression" ->
           [resp |-> [x.resp EXCEPT !.enc = (gzip /\ x.resp.kind # "empty")],
            up |-> Append(x.up, layer),
            inner |-> x.inner]
      [] OTHER ->
           [resp |-> x.resp, up |-> Append(x.up, layer), inner |-> x.inner]

\* The response side: the layers i, i-1, .., 1 in turn.  (v names the value
\* of x, so that each layer's response is computed once.)
RECURSIVE Ascend(_, _, _)
Ascend(i, gzip, x) ==
    IF i = 0 THEN x
    ELSE LET Up(v) ==
                 Ascend(i - 1, gzip, LayerResponse(middlewares[i], gzip, v))
         IN  CHOOSE z \in {Up(v) : v \in {x}} : TRUE

\* One whole exchange: the request went down, `inner` came back from the
\* routed service (or from the layer that answered), the response went up.
Exchange(req, gzip, call, res) ==
    LET d == Descend(1, req, <<>>)
        ran == d.stop = 0 /\ (call.await => Extracted(res))
        x == IF d.stop = 0
             THEN Ascend(Len(middlewares), gzip,
                         [resp |-> (IF call.await THEN HandlerResponse(res)
                                    ELSE call.resp),
                          up |-> <<"route">>, inner |-> -1])
             ELSE Ascend(d.stop - 1, gzip,
                         [resp |-> PreflightResponse,
                          up |-> <<middlewares[d.stop]>>, inner |-> -1])
    IN  [req |-> req,
         endpoint |-> IF d.stop = 0 THEN Endpoint(routes, req) ELSE "none",
         down |-> d.down,
         up |-> x.up,
         inner |-> x.inner,
         hres |-> IF d.stop = 0 /\ call.await THEN res ELSE NoResult,
         calls |-> IF ran THEN call.calls ELSE 0,
         parsed |-> IF ran THEN call.parsed ELSE FALSE,
         resp |-> x.resp]

NoExchange ==
    [req |-> NoReq, endpoint |-> "none", down |-> <<>>, up |-> <<>>,
     inner |-> -1, hres |-> NoResult, calls |-> 0, parsed |-> FALSE,
     resp |-> [status |-> 0, kind |-> "empty", msg |-> "", cors |-> FALSE,
               enc |-> FALSE]]

FreeSlot == [st |-> "free", req |-> NoReq, hres |-> NoResult]

PipeInit ==
    /\ inflight = [r \in ReqIds |-> FreeSlot]
    /\ last = NoExchange

Init == LifeInit /\ PipeInit

\* The request reaches an adapted service, which is awaited.
Awaits(req) ==
    /\ Descend(1, req, <<>>).stop = 0
    /\ RouteCall(req).await

\* main.rs 275-277: a request arrives, unrecognized_method calls
\* next.run(req) and its routed service is awaited: the request task
\* suspends.  (It takes the first free slot; the slots are interchangeable.)
Arrive(r, req) ==
    /\ UNCHANGED lifeVars
    /\ inflight[r].st = "free"
    /\ \A q \in ReqIds : q < r => inflight[q].st # "free"
    /\ Awaits(req)
    /\ inflight' = [inflight EXCEPT
                      ![r] = [st |-> "handler", req |-> req, hres |-> NoResult]]
    /\ last' = NoExchange

\* A request arrives and is answered without awaiting a business handler:
\* by the CORS layer, the fallback, the 405 responder or initial_sync.
Respond(req, gzip) ==
    /\ UNCHANGED lifeVars
    /\ \E r \in ReqIds : inflight[r].st = "free"
    /\ ~Awaits(req)
    /\ last' = Exchange(req, gzip, RouteCall(req), NoResult)
    /\ UNCHANGED inflight

\* The awaited service of slot r returns res and the response goes up the
\* stack, in one step.
HandlerReturns(r, res, gzip) ==
    /\ UNCHANGED lifeVars
    /\ inflight[r].st = "handler"
    /\ last' = Exchange(inflight[r].req, gzip, RouteCall(inflight[r].req), res)
    /\ inflight' = [inflight EXCEPT ![r] = FreeSlot]

\* The exchanges of the pipeline: one request at a time awaits its routed
\* service (in slot 1), and requests that await none are answered meanwhile.
PipeNext ==
    \/ \E req \in Requests : Arrive(1, req)
    \/ \E req \in Requests, gzip \in BOOLEAN : Respond(req, gzip)
    \/ \E res \in AdapterResults, gzip \in BOOLEAN :
         HandlerReturns(1, res, gzip)

PipeSpec == Init /\ [][PipeNext]_vars

\* -------------------------------------------------------- InterleaveSpec
\* The requests in flight at once, each in its own call of
\* unrecognized_method, with the steps of the calls interleaved.

\* Mutant of next_run_returns: requests are served one at a time, a service
\* returning only when no request in a lower slot awaits its own.
next_run_returns_serialized(r, res) ==
    /\ UNCHANGED lifeVars
    /\ inflight[r].st = "handler"
    /\ \A q \in ReqIds : q < r => inflight[q].st # "handler"
    /\ inflight' = [inflight EXCEPT ![r].st = "returned", ![r].hres = res]
    /\ last' = NoExchange

\* main.rs 277: next.run(req).await completes for the request of slot r; what
\* came back is bound to `inner` in that call's frame.
next_run_returns(r, res) ==
    /\ UNCHANGED lifeVars
    /\ inflight[r].st = "handler"
    /\ inflight' = [inflight EXCEPT ![r].st = "returned", ![r].hres = res]
    /\ last' = NoExchange

\* main.rs 279-292: the call of slot r goes on after the await: it tests the
\* status of its inner and returns; the response leaves through the outer
\* stages.
unrecognized_method_resumes(r, gzip) ==
    /\ UNCHANGED lifeVars
    /\ inflight[r].st = "returned"
    /\ last' = Exchange(inflight[r].req, gzip, RouteCall(inflight[r].req),
                        inflight[r].hres)
    /\ inflight' = [inflight EXCEPT ![r] = FreeSlot]

\* The requests drawn for the interleavings: the two endpoints of one login
\* path, with a body within the limit.
InterleaveRequests ==
    {req \in Requests :
       /\ req.method \in {"GET", "POST"}
       /\ req.path = LoginPaths[2]
       /\ req.len = max_request_size}

InterleaveNext ==
    \/ \E r \in ReqIds, req \in InterleaveRequests : Arrive(r, req)
    \/ \E r \in ReqIds, res \in HandlerResults : next_run_returns(r, res)
    \/ \E r \in ReqIds, gzip \in BOOLEAN : unrecognized_method_resumes(r, gzip)

\* The request of slot 1 is left to the scheduler and to its handler, which
\* may never return; the services of the other requests return, and a call
\* that can go on does (the runtime polls a task that has been woken).
InterleaveSpec ==
    /\ Init
    /\ [][InterleaveNext]_vars
    /\ \A r \in ReqIds \ {1} :
         /\ WF_vars(\E res \in HandlerResults : next_run_returns(r, res))
         /\ WF_vars(\E gzip \in BOOLEAN : unrecognized_method_resumes(r, gzip))

\* ------------------------------------------------------------------ Next
Next ==
    \/ build_routes
    \/ load_tls
    \/ notify_ready
    \/ bind_listener
    \/ \E c \in ConnIds : OpenConn(c)
    \/ \E c \in ConnIds, d \in 1..MaxReqDur : StartRequest(c, d)
    \/ \E c \in ConnIds : FinishRequest(c)
    \/ \E c \in ConnIds : CloseConn(c)
    \/ \E c \in ConnIds : KillConn(c)
    \/ serve_shutdown
    \/ accept_loop_exit
    \/ conns_end
    \/ grace_timeout
    \/ on_shutdown
    \/ process_exit
    \/ monitor_start
    \/ ctrl_c
    \/ terminate
    \/ check_idle_sample
    \/ check_idle
    \/ Tick

Spec == Init /\ [][Next]_vars

\* ------------------------------------------------------------- IdleSpec
\* The executions in which no signal is delivered: the steps of run_server,
\* of the serving task and of the idle monitor, the connections and the clock.
\* The program's own steps and the clock are taken when they can be (the
\* runtime polls a task that can progress; time passes).
ProgramStep ==
    \/ build_routes
    \/ load_tls
    \/ notify_ready
    \/ bind_listener
    \/ monitor_start
    \/ serve_shutdown
    \/ on_shutdown
    \/ process_exit
    \/ check_idle_sample
    \/ check_idle
    \/ \E c \in ConnIds : KillConn(c)
    \/ Tick

IdleNext ==
    \/ ProgramStep
    \/ \E c \in ConnIds : OpenConn(c)
    \/ \E c \in ConnIds : CloseConn(c)

IdleSpec == Init /\ [][IdleNext]_vars /\ WF_vars(ProgramStep)

\* ================================================================ claims
\* C1 (as claimed): over a whole execution check_idle calls handle.shutdown()
\* at most once, however many check intervals elapse after the first call.
C1_IdleShutdownOnce == idleCalls <= 1

\* C2 (as claimed): check_idle never calls shutdown at the end of a window in
\* which a connection was open at some instant, sampled or not.
C2_AnyConnectionResets ==
    [][idleCalls' > idleCalls => ~openedSince]_vars

\* C2 (amended): a connection resets the idle timer when a check samples it:
\* a check that calls shutdown sampled a count of 0, and more than
\* IDLE_DURATION has passed since the last check that sampled a connection.
C2_SampledConnectionResets ==
    [][idleCalls' > idleCalls =>
         /\ count = 0
         /\ (lastSeen >= 0 =>
                elapsed(lastSeen) > Duration_from_secs(IDLE_DURATION))]_vars

\* C2 witness: a connection was sampled by a check, and a later check, more
\* than IDLE_DURATION after it, called shutdown.
C2_Witness ==
    /\ idleCalls = 1
    /\ lastSeen >= 0
    /\ elapsed(lastSeen) > Duration_from_secs(IDLE_DURATION)
    /\ now = lastSeen + IDLE_DURATION

\* C3: when a signal starts the drain, a request in flight with less than
\* GRACE_DURATION left is never cut off and has completed by the time the
\* serving task returns; one with more than GRACE_DURATION left never
\* completes and is cut off exactly when the grace period elapses.
C3_GracefulDrain ==
    first = "signal" =>
      \A c \in ConnIds :
        /\ (sigRem[c] >= 0 /\ sigRem[c] < GRACE_DURATION) =>
              /\ outcome[c] # "killed"
              /\ shutdown_phase = "Stopped" => outcome[c] = "completed"
        /\ sigRem[c] > GRACE_DURATION =>
              /\ outcome[c] # "completed"
              /\ serverPc = "exited" => outcome[c] = "killed"
              /\ outcome[c] = "killed" => now = drainStart + GRACE_DURATION

\* C3 witness: after a signal, the process has exited; one request that had
\* less than the grace period left completed, another that had more was cut.
C3_Witness ==
    /\ first = "signal"
    /\ serverPc = "exited"
    /\ \E c, d \in ConnIds :
         /\ sigRem[c] \in 1..(GRACE_DURATION - 1)
         /\ outcome[c] = "completed"
         /\ sigRem[d] > GRACE_DURATION
         /\ outcome[d] = "killed"

\* C4: the shutdown phase never moves backwards.
C4_PhaseMonotonic ==
    [][PhaseRank(shutdown_phase') >= PhaseRank(shutdown_phase)]_vars

\* C4 witness: the server went through Draining to Stopped, after signal
\* delivery, idle checks and connection events.
C4_Witness ==
    /\ shutdown_phase = "Stopped"
    /\ gsCalls = 1
    /\ now >= CHECK_INTERVAL
    /\ \E c \in ConnIds : outcome[c] # "none"

\* C5 (as claimed): whichever path fires first, the other never calls the
\* handle afterwards.
C5_FirstWins ==
    /\ first = "signal" => idleCalls = 0
    /\ first = "idle" => gsCalls = 0

\* ------------------------------------------------------ pipeline claims
Completed == last.req.method # "none"

\* The path is registered but no registration on it serves the method.
MethodMismatch(req) ==
    /\ MatchedPath(routes, req.path)
    /\ ~MethodRegistered(routes, req.path, req.method)

UnrecognizedEnvelope(resp) ==
    /\ resp.kind = "Unrecognized"
    /\ resp.status \in 400..499

\* C6 (as claimed): every request whose path is registered and whose method
\* is served by no registration on it leaves with the Unrecognized envelope
\* and a 4xx status.
C6_MethodMismatchUnrecognized ==
    (Completed /\ MethodMismatch(last.req)) => UnrecognizedEnvelope(last.resp)

\* C6 (amended): the same for every such request other than an OPTIONS
\* request; the response is the 405 envelope, never the bare 405.
C6_NonOptionsMismatchUnrecognized ==
    (Completed /\ MethodMismatch(last.req) /\ last.req.method # "OPTIONS") =>
        /\ UnrecognizedEnvelope(last.resp)
        /\ last.resp # MethodNotAllowed
        /\ last.resp.msg # ""
        /\ last.calls = 0

\* C6 witness: a PUT on the login path was answered, after the 405 responder
\* and method-correction acted.
C6_Witness ==
    /\ Completed
    /\ last.req.method = "PUT"
    /\ last.req.path = LoginPaths[1]
    /\ last.endpoint = "method_not_allowed"
    /\ last.inner = 405
    /\ last.resp.kind = "Unrecognized"

C8_HandlerErrorUnchanged ==
    (Completed /\ last.hres \in HandlerErrors) =>
        /\ last.resp.status = last.hres.status_code
        /\ last.resp.kind = last.hres.kind
        /\ last.resp.msg = last.hres.message

\* The status routing produced for the completed exchange: the routed
\* service's own, or the result of the handler it awaited.
RoutingStatus ==
    CASE last.endpoint = "method_not_allowed" -> MethodNotAllowed.status
      [] last.endpoint = "not_found" -> not_found.status
      [] last.endpoint = "initial_sync" -> initial_sync.status
      [] OTHER -> last.hres.status_code

Stages ==
    << "sensitive_headers", "trace", "compression", "unrecognized_method",
       "cors", "body_limit", "route" >>

C10_OversizeRejected ==
    (Completed /\ MatchedPath(routes, last.req.path)
       /\ last.req.len > max_request_size) =>
        /\ last.resp.status \in 400..499
        /\ last.calls = 0
        /\ ~last.parsed

\* C10 witness: a GET with a body of twice the limit went through the body
\* limit stage to the initialSync route, and initial_sync was invoked.
C10_Witness ==
    /\ Completed
    /\ last.req.method = "GET"
    /\ last.req.path = InitialSyncV3
    /\ last.req.len = 2 * max_request_size
    /\ last.down[6] = "body_limit"
    /\ last.endpoint = "initial_sync"
    /\ last.calls = 1
    /\ last.resp.kind = "GuestAccessForbidden"

\* The routes one endpoint's registration is to install: one per alias.
AliasRoutes(ep) ==
    {[path |-> ep.history[k], filter |-> method_to_filter(ep.method),
      handler |-> ep.handler] : k \in 1..Len(ep.history)}

\* C11: registering an endpoint with N aliases adds exactly one route per
\* alias, each with the endpoint's method filter and handler, and leaves the
\* routes registered before it (and the fallback) as they were; and a
\* completed request to one alias would have reached the same endpoint and
\* got the same response on every other alias of that endpoint.
C11_AliasingInvariant ==
    /\ \A i \in 1..Len(Endpoints) :
         LET ep == Endpoints[i]
             before == ruma_route(Router_new, SubSeq(Endpoints, 1, i - 1))
             after == add_to_router(ep, before)
         IN  /\ after.reg = before.reg \cup AliasRoutes(ep)
             /\ Cardinality(after.reg \ before.reg) = Len(ep.history)
             /\ after.fallback = before.fallback
             /\ AliasRoutes(ep) \subseteq routes.reg
    /\ Completed =>
         \A i \in 1..Len(Endpoints) :
           \A k1, k2 \in 1..Len(Endpoints[i].history) :
             last.req.path = Endpoints[i].history[k1] =>
               LET alt == [last.req EXCEPT !.path = Endpoints[i].history[k2]]
               IN  /\ Endpoint(routes, alt) = last.endpoint
                      \/ last.endpoint = "none"
                   /\ \A gzip \in BOOLEAN :
                        Exchange(last.req, gzip, RouteCall(last.req),
                                 last.hres).resp = last.resp
                        => Exchange(alt, gzip, RouteCall(alt),
                                    last.hres).resp = last.resp

\* C11 witness: a request to the second alias of the login endpoint reached
\* login_route and was answered.
C11_Witness ==
    /\ Completed
    /\ last.req.path = LoginPaths[2]
    /\ last.req.method = "POST"
    /\ last.endpoint = "login_route"
    /\ last.hres = OkResult
    /\ Cardinality(AliasRoutes(Endpoints[2])) = 2

\* The serving task has left its accept loop and run_server is past the step
\* that follows the return of serve: no connection is accepted any more.
StoppedAccepting == serverPc \in {"waiting", "stopped", "exited"}

\* C12 (as claimed): the rotate event and the stopping notification have been
\* emitted by the time the server stops accepting connections, before any
\* request in flight at the signal has finished or been closed by force, and
\* before the process exits.
C12_NotifiedAtDrainStart ==
    /\ StoppedAccepting => (rotated /\ stopping)
    /\ \A c \in ConnIds :
         outcome[c] \in {"completed", "killed"} => (rotated /\ stopping)
    /\ serverPc = "exited" => (rotated /\ stopping)

\* C13 (as claimed): a Ready notification has been sent only if the listener
\* was bound before, and a failed startup has sent none.
C13_ReadyAfterBind ==
    /\ ready => bound
    /\ serverPc = "failed" => ~ready

\* C14 (as claimed): when the installation of a signal handler has failed the
\* process is not alive: it does not go on accepting and serving connections.
C14_InstallFailureFatal == monPc = "panicked" => ~ProcessAlive

\* C15 (as claimed): when the shutdown called by the idle monitor takes effect
\* no connection is open, so it cuts none off.
C15_IdleNothingToDrain ==
    (shutdownFlag /\ idleCalls > 0 /\ gsCalls = 0) => connection_count = 0

\* The response is the one method-correction builds.
Rewritten(resp) ==
    /\ resp.kind = "Unrecognized"
    /\ resp.msg = "M_UNRECOGNIZED: Unrecognized request"
    /\ resp.status = 405

StoppedWithinGrace ==
    (graceful /\ shutdown_phase # "Stopped") =>
        now <= drainStart + GRACE_DURATION

\* C17 (as claimed): from the moment graceful shutdown has been requested,
\* connection_count never increases, and the server is Stopped no later than
\* GRACE_DURATION after the request.
C17_NoAcceptAfterDrainRequest ==
    /\ [][graceful =>
            Cardinality({c \in ConnIds : conns'[c].st # "free"})
                <= connection_count]_vars
    /\ []StoppedWithinGrace

\* C17 (amended): from the moment the serving task has left its accept loop
\* on the graceful request, connection_count never increases, and the server
\* is Stopped no later than GRACE_DURATION after the request.
C17_NoAcceptAfterLoopExit ==
    /\ [][(graceful /\ serverPc \in {"waiting", "returned", "stopped", "exited"})
            => Cardinality({c \in ConnIds : conns'[c].st # "free"})
                  <= connection_count]_vars
    /\ []StoppedWithinGrace

\* C17 witness: the grace period has just elapsed on a request that had more
\* than the grace period left at the signal; serve has returned, the request
\* still unfinished.
C17_Witness ==
    /\ gsCalls = 1
    /\ idleCalls = 0
    /\ serverPc = "returned"
    /\ now = drainStart + GRACE_DURATION
    /\ \E c \in ConnIds :
         /\ sigRem[c] > GRACE_DURATION
         /\ conns[c].st = "busy"
         /\ conns[c].rem > 0

\* C18: method_to_filter gives each of the eight named methods the filter of
\* the same name and panics for any other; the panic of a route-table
\* construction happens only in the construction step, when nothing has been
\* bound, announced, accepted or served; and once the table is built no later
\* step panics on it.
C18_ConstructionPanicAtStartup ==
    /\ [](/\ \A m \in SupportedMethods :
               method_to_filter(m) = "MethodFilter::" \o m
          /\ \A m \in HttpMethods \ SupportedMethods :
               method_to_filter(m) = "panic")
    /\ [](serverPc = "panicked" =>
            /\ ~bound /\ ~ready
            /\ connection_count = 0
            /\ monPc = "unspawned"
            /\ now = 0)
    /\ [][serverPc' = "panicked" => serverPc = "build"]_vars

\* C18 witness: the construction of the route table has panicked.
C18_Witness ==
    /\ serverPc = "panicked"
    /\ \E m \in HttpMethods : method_to_filter(m) = "panic"

\* C19: a check of the idle monitor calls shutdown only when it sampled a
\* count of 0 and more than IDLE_DURATION has passed since last_activity; a
\* check that sampled a count above 0 sets last_activity to the current
\* instant and calls no shutdown; and while the monitor lives last_activity
\* never moves backwards.
C19_IdleShutdownSafety ==
    [][/\ idleCalls' > idleCalls =>
            /\ monPc = "sampled"
            /\ count = 0
            /\ elapsed(last_activity) > Duration_from_secs(IDLE_DURATION)
       /\ (monPc = "sampled" /\ monPc' = "loop" /\ count > 0) =>
            /\ last_activity' = now
            /\ idleCalls' = idleCalls
            /\ shutdownFlag' = shutdownFlag
       /\ monPc' \in {"loop", "sampled"} => last_activity' >= last_activity
      ]_vars

\* C19 witness: a check sampled a connection and moved last_activity to that
\* instant; a later check, more than IDLE_DURATION after it, sampled none and
\* called shutdown.
C19_Witness ==
    /\ monPc = "loop"
    /\ idleCalls = 1
    /\ shutdownFlag
    /\ last_activity >= CHECK_INTERVAL
    /\ last_activity = lastSeen
    /\ elapsed(last_activity) > Duration_from_secs(IDLE_DURATION)
    /\ now = last_activity + IDLE_DURATION
    /\ wake = now + CHECK_INTERVAL

\* The instant of the last check that observed a connection, or the monitor's
\* start if none did.
LastObserved == IF lastSeen >= 0 THEN lastSeen ELSE 0

MonitorRunning == monPc \in {"loop", "sampled"}

\* The idle deadline lies within the time the model covers.
DeadlineCovered ==
    (idleCalls = 0 /\ monPc \in {"unspawned", "spawned", "loop", "sampled"}) =>
        LastObserved + IDLE_DURATION + CHECK_INTERVAL <= MaxTime

\* C20: with no signal received, no failed startup and the monitor's handlers
\* installed, if connection_count stays 0 from some point on then the idle
\* monitor calls shutdown and the server reaches Stopped; and as long as the
\* monitor has not called shutdown, no more than IDLE_DURATION +
\* CHECK_INTERVAL has passed since the last check that observed a connection
\* (or since the monitor's start).
C20_IdleShutdownLive ==
    /\ ( /\ [](/\ gsCalls = 0
               /\ serverPc \notin {"failed", "panicked"}
               /\ monPc # "panicked")
         /\ <>[](connection_count = 0 /\ DeadlineCovered) )
       => ( <>(idleCalls > 0) /\ <>(shutdown_phase = "Stopped") )
    /\ []((MonitorRunning /\ ProcessAlive /\ idleCalls = 0) =>
            now <= LastObserved + IDLE_DURATION + CHECK_INTERVAL)

\* C20 witness: with no signal, a connection was observed by the check at
\* 30 s and none after it; the check IDLE_DURATION later called shutdown and
\* run_server is past serve, the server Stopped.
C20_Witness ==
    /\ gsCalls = 0
    /\ idleCalls = 1
    /\ lastSeen = CHECK_INTERVAL
    /\ now = lastSeen + IDLE_DURATION
    /\ serverPc = "stopped"
    /\ connection_count = 0

\* The response that comes back to method-correction for the exchange x: the
\* routed service's, decorated by the CORS stage, or the CORS stage's own.
InnerResponse(x) ==
    IF x.req.method = "OPTIONS" THEN PreflightResponse
    ELSE [(IF RouteCall(x.req).await THEN HandlerResponse(x.hres)
           ELSE RouteCall(x.req).resp) EXCEPT !.cors = TRUE]

\* The responses that can come back to method-correction.
InnerResponses ==
    {PreflightResponse}
      \cup {[r EXCEPT !.cors = TRUE] :
              r \in {HandlerResponse(res) : res \in AdapterResults}
                      \cup {RouteCall(req).resp : req \in Requests}}

\* C21: method-correction returns an inner response whose status is not 405
\* as it got it; the completed exchange left with the status, body and CORS
\* headers of its inner response, and the request went inward as it came: it
\* was routed by its own method and path.
C21_MethodCorrectionFrame ==
    /\ \A inner \in InnerResponses :
         inner.status # 405 => unrecognized_method(inner) = inner
    /\ (Completed /\ last.inner # 405) =>
         /\ last.inner = InnerResponse(last).status
         /\ last.resp.status = InnerResponse(last).status
         /\ last.resp.kind = InnerResponse(last).kind
         /\ last.resp.msg = InnerResponse(last).msg
         /\ last.resp.cors = InnerResponse(last).cors
         /\ last.req.method # "OPTIONS" =>
              last.endpoint = Endpoint(routes, last.req)

\* C21 witness: a handler's error with status 403 came back to
\* method-correction and left the pipeline as it was.
C21_Witness ==
    /\ Completed
    /\ last.hres \in HandlerErrors
    /\ last.hres.status_code = 403
    /\ last.inner = 403
    /\ last.resp.kind = "Forbidden"
    /\ last.resp.cors

\* C22 (as claimed): every response that leaves the pipeline carries the CORS
\* policy headers, the one method-correction rewrote included.
C22_CorsOnEveryResponse == Completed => last.resp.cors

\* C23: graceful_shutdown is called on the handle at most once; once it has
\* been called the monitor task is over, and no later step calls
\* graceful_shutdown or the idle monitor's shutdown.
C23_GracefulShutdownOnce ==
    /\ [](gsCalls <= 1)
    /\ [](gsCalls >= 1 => monPc = "done")
    /\ [][gsCalls >= 1 => (gsCalls' = gsCalls /\ idleCalls' = idleCalls)]_vars

\* C23 witness: a signal was handled when the idle monitor had run for some
\* checks; the drain is still going on a second later and nothing more has
\* been called on the handle.
C23_Witness ==
    /\ gsCalls = 1
    /\ monPc = "done"
    /\ drainStart >= CHECK_INTERVAL
    /\ now > drainStart
    /\ serverPc = "waiting"
    /\ idleCalls = 0

====
